---- MODULE Spec2Model ----
(***************************************************************************)
(* A model of the browser client of DDOS-Map (src/frontend/main.js): the   *)
(* SSE connection manager connectSSE, the arc list with its animation      *)
(* frame animateArcs, the rolling window behind the infographic, and the   *)
(* camera handlers onViewStateChange and onInteractionStateChange.         *)
(*                                                                         *)
(* The page is one event loop.  Every action below is one task of that     *)
(* loop, run to completion together with the microtasks it queues (the     *)
(* continuation of connectSSE after its awaited promise settles).          *)
(*                                                                         *)
(* Abstractions:                                                           *)
(*  - an EventSource is a record in a slot of tr; a slot is reused once    *)
(*    its transport is closed and no variable of the program refers to it; *)
(*  - a probe whose open-timeout fired is referred to by nothing in the    *)
(*    program but stays alive in the browser: it is kept in the bag        *)
(*    leaked, of which at most MaxLeaked members are tracked;              *)
(*  - clocks are whole milliseconds; progress and alpha are exact          *)
(*    rationals, scaled to integers (ProgressScale, AlphaScale);           *)
(*  - the camera's angles and zoom are kept in tenths; a proposed view     *)
(*    state differs from the camera by multiples of PanDivisor, so that    *)
(*    the damping by PAN_SENSITIVITY is exact;                             *)
(*  - the point jitterHub returns is kept as the pair (h % 100, h % 36000) *)
(*    that fixes its radius and angle;                                     *)
(*  - an arc's width is kept in hundredths (WidthScale), rounded down at   *)
(*    the square root and at each frame's decay; NaN, for a width or a     *)
(*    timestamp, is the value NotANumber, and every comparison with it is  *)
(*    spelt out;                                                           *)
(*  - requestAnimationFrame runs animateArcs at most once per millisecond  *)
(*    of the clock (frameAt);                                              *)
(*  - ev and viewInput are history variables: the last task that ran and   *)
(*    the argument of the last onViewStateChange call.                     *)
(***************************************************************************)
EXTENDS Integers, Sequences, FiniteSets, Bags, TLC

(* ------------------------------ bounds -------------------------------- *)

\* Candidate endpoints probed per cycle (main.js lists four URLs).
NumCandidates == 2
\* Hot-module reloads (import.meta.hot) within one behaviour.
MaxReloads == 1
\* Abandoned probes tracked at the same time.
MaxLeaked == 1
\* Well-formed messages handled by one module instance.
MaxEvents == 4
\* Well-formed messages handled while the connection manager is explored.
ConnEvents == 1
\* The cap on the arc list.  main.js:132 sets 150; the model scales it down so
\* that a handful of events takes the list over the cap.
MAX_ARCS == 3
\* Messages admitted in the runs that take the colour counter round the
\* palette.
IntakeEvents == 7
\* The camera moves: a proposal differs from the camera by PanDivisor * ViewUnit
\* tenths per coordinate, and the camera stays within MaxPan damped moves and
\* one undamped move of where it started.
ViewUnit == 10
MaxPan == 1
\* Rows of the top-sources table (main.js:336 slices to 5; scaled to the
\* number of countries of the inputs).
TOP_N == 2
\* performance.now() and Date.now() when the first task of the model runs.
PerfStart == 1000
DateStart == 1000000

(* -------------------------- program constants ------------------------- *)

\* PAN_SENSITIVITY = 0.1 = 1 / PanDivisor
PanDivisor == 10
OPEN_TIMEOUT_MS == 4000
RECONNECT_DELAY_MS == 2000
RETRY_ALL_DELAY_MS == 3000
TRAVEL_MS == 1200
FADE_MS == 2000
WINDOW_MS == 300000
ONE_MIN == 60000
\* Entries of the COLORS palette (main.js:122-128).
COLORS_LENGTH == 5
DEBOUNCE_MS == 150

(* ------------------------------- state -------------------------------- *)

VARIABLES
  tr,          \* slot -> EventSource: readyState, url, installed handlers, owning module instance
  invs,        \* connectSSE invocations suspended at their await
  timers,      \* bag of pending setTimeout(connectSSE, delay)
  es,          \* module instance -> the module-level variable es (0: null/undefined)
  ddos_es,     \* globalThis.__ddos_es (0: undefined)
  status,      \* text of the #status element
  curGen,      \* the module instance evaluated last
  hot,         \* "running", or "disposed" between a dispose and the new instance's start
  leaked,      \* bag of abandoned probes still alive in the browser
  good,        \* the candidate that, from some point on, opens within its timeout (0: none)
  arcs,        \* the array arcs of the current module instance
  colorIdx,    \* the counter behind nextColor()
  windowEvents,   \* the array windowEvents
  infographicTimer,  \* 0 (null), or the time at which the pending debounce timer is due
  kpi,         \* what renderInfographic wrote last
  frameAt,     \* performance.now() of the last animation frame
  currentViewState,  \* the camera: latitude, longitude, rotationOrbit (tenths of a degree), zoom (tenths)
  isInteracting,     \* set by onInteractionStateChange
  draggingNow,       \* set by onInteractionStateChange
  viewInput,   \* history: the argument of the last onViewStateChange call
  elapsed,     \* milliseconds since the first task of the model
  ev           \* history: the task that ran last

connVars == <<tr, invs, timers, es, ddos_es, status, curGen, hot, leaked, good>>
pageVars == <<arcs, colorIdx, windowEvents, infographicTimer, kpi, frameAt>>
viewVars == <<currentViewState, isInteracting, draggingNow, viewInput>>
vars == <<tr, invs, timers, es, ddos_es, status, curGen, hot, leaked, good,
          arcs, colorIdx, windowEvents, infographicTimer, kpi, frameAt,
          currentViewState, isInteracting, draggingNow, viewInput, elapsed, ev>>

\* performance.now() and Date.now(): both advance with elapsed.
perfNow == PerfStart + elapsed
dateNow == DateStart + elapsed

MaxGen == 1 + MaxReloads
Gens == 1..MaxGen
\* Slots in use at once: per instance the transport es refers to and the awaited
\* probe, and the transport globalThis.__ddos_es refers to.
MaxSlots == 2 * MaxGen + 1
Slots == 1..MaxSlots
Candidates == 1..NumCandidates

FreeRec == [rs |-> "free", url |-> 0, h |-> "none", gen |-> 0]

\* EventSource.readyState 0 (CONNECTING) or 1 (OPEN): created and not closed.
Live(r) == r.rs \in {"connecting", "open"}

\* A closed EventSource dispatches no further event; its slot is reused once no
\* variable or suspended invocation refers to it.
GC(f, e, d, I) ==
  LET refs == {e[g] : g \in Gens} \cup {d} \cup {v.src : v \in I}
  IN  [t \in Slots |-> IF f[t].rs = "closed" /\ t \notin refs THEN FreeRec ELSE f[t]]

HasFree(f) == \E t \in Slots : f[t].rs = "free"
NewSlot(f) == CHOOSE t \in Slots : f[t].rs = "free" /\ \A u \in Slots : u < t => f[u].rs # "free"

\* es.close()
CloseT(f, t) == IF t # 0 /\ f[t].rs # "closed" THEN [f EXCEPT ![t].rs = "closed"] ELSE f

AddLeak(b, r) == IF BagCardinality(b) < MaxLeaked THEN b (+) SetToBag({r}) ELSE b

\* Mutant: the retry is never scheduled.
NoRetry(b, g, delay) == b

\* setTimeout(connectSSE, delay) by module instance g
ScheduleRetry(b, g, delay) == b (+) SetToBag({[gen |-> g, delay |-> delay]})

TimerCount(g) ==
  CopiesIn([gen |-> g, delay |-> RECONNECT_DELAY_MS], timers)
  + CopiesIn([gen |-> g, delay |-> RETRY_ALL_DELAY_MS], timers)

Min(a, b) == IF a < b THEN a ELSE b
Max(a, b) == IF a > b THEN a ELSE b

(* -------------------------------- arcs -------------------------------- *)

\* progress p is held as the integer p * ProgressScale, alpha a as a * AlphaScale.
ProgressScale == TRAVEL_MS * TRAVEL_MS * TRAVEL_MS
AlphaScale == FADE_MS
\* initialT = 0.02
InitialT == ProgressScale \div 50

\* t = min(1, age / TRAVEL_MS); progress = 1 - (1 - t)^3
EaseProgress(age) ==
  LET r == TRAVEL_MS - Min(TRAVEL_MS, age) IN ProgressScale - r * r * r

\* fadeT = min(1, (age - TRAVEL_MS) / FADE_MS); alpha = 1 - fadeT
FadeAlpha(age) == AlphaScale - Min(FADE_MS, age - TRAVEL_MS)

\* age = now - (a._born || now)
Age(a, now) == now - (IF a.born # 0 THEN a.born ELSE now)

(* width: hundredths; NotANumber stands for NaN, which Math.min, Math.max and
   the arithmetic operators hand on. *)
WidthScale == 100
NotANumber == -1
SqrtClampLow == 60
SqrtClampHigh == 400
WidthFloor == 80

\* Math.sqrt(n) in hundredths, rounded down; NaN for a negative n.
SqrtHundredths(n) ==
  IF n < 0 THEN NotANumber
  ELSE IF n >= 16 THEN SqrtClampHigh
  ELSE CHOOSE r \in 0..SqrtClampHigh :
         r * r <= n * WidthScale * WidthScale /\ (r + 1) * (r + 1) > n * WidthScale * WidthScale

\* widthFromIntensity(x): 2 * Math.max(0.6, Math.min(4, Math.sqrt(Number(x) || 1)))
WidthFromIntensity(x) ==
  LET n == IF x = 0 THEN 1 ELSE x
      root == SqrtHundredths(n)
  IN  IF root = NotANumber THEN NotANumber
      ELSE 2 * Max(SqrtClampLow, Min(SqrtClampHigh, root))

\* Math.max(0.8, a.width * (0.996 + 0.004 * (a.alpha ?? 1))): the factor is
\* 1 - 0.004 * (1 - alpha); the product is rounded down to the hundredth.
DecayWidth(width, alpha) ==
  LET loss == width * (AlphaScale - alpha)
      unit == 250 * AlphaScale
  IN  IF width = NotANumber THEN NotANumber
      ELSE Max(WidthFloor, width - (loss + unit - 1) \div unit)

\* Mutant: the fade is computed without the test progress >= 1.
TickArcNoGuard(a, now) ==
  [a EXCEPT !.progress = EaseProgress(Age(a, now)),
            !.alpha = AlphaScale - Min(FADE_MS, Age(a, now) - TRAVEL_MS)]

\* The body of the loop of animateArcs for one arc, before the eviction test.
TickArc(a, now) ==
  LET p == EaseProgress(Age(a, now))
      alpha == IF p >= ProgressScale THEN FadeAlpha(Age(a, now)) ELSE AlphaScale
  IN  [a EXCEPT !.progress = p,
                !.alpha = alpha,
                !.width = DecayWidth(a.width, alpha)]

\* if (age >= TRAVEL_MS + FADE_MS) arcs.splice(i, 1)
Expired(a, now) == Age(a, now) >= TRAVEL_MS + FADE_MS

\* The loop of animateArcs over the whole array.
AnimateAll(s, now) ==
  LET Keep(a) == ~Expired(a, now)
  IN  SelectSeq([i \in 1..Len(s) |-> TickArc(s[i], now)], Keep)

\* Mutant: the cap drops the newest records instead of the oldest.
CapArcsDropNewest(s) == IF Len(s) > MAX_ARCS THEN SubSeq(s, 1, MAX_ARCS) ELSE s

\* if (arcs.length > MAX_ARCS) arcs.splice(0, arcs.length - MAX_ARCS)
CapArcs(s) == IF Len(s) > MAX_ARCS THEN SubSeq(s, Len(s) - MAX_ARCS + 1, Len(s)) ELSE s

(* ----------------------- coordinates of an arc ----------------------- *)

\* String.prototype.toUpperCase and charCodeAt over the country codes of the inputs.
ToUpperCase(str) == CASE str = "zz" -> "ZZ" [] str = "us" -> "US" [] OTHER -> str
CharCodes(str) ==
  CASE str = "" -> <<>>
    [] str = "US" -> <<85, 83>>
    [] str = "DE" -> <<68, 69>>
    [] str = "ZZ" -> <<90, 90>>
    [] str = "??" -> <<63, 63>>
    [] str = "SRC|" -> <<83, 82, 67, 124>>
    [] str = "ABPAVXNB" -> <<65, 66, 80, 65, 86, 88, 78, 66>>

\* lookupCentroid(code): CENTROIDS is loaded before the module goes on (line 20).
KnownCentroids == {"US", "DE"}
LookupCentroid(code) == code # "" /\ code \in KnownCentroids

\* h = ((h << 5) - h + c) | 0 on 32-bit integers, kept as two 16-bit halves.
Half == 65536
RECURSIVE HashFrom(_, _, _)
HashFrom(hi, lo, codes) ==
  IF codes = <<>> THEN <<hi, lo>>
  ELSE LET t == 31 * lo + Head(codes)
       IN  HashFrom((31 * hi + t \div Half) % Half, t % Half, Tail(codes))

\* The signed 32-bit value of the halves.
ToInt32(hl) == IF hl[1] >= Half \div 2 THEN (hl[1] - Half) * Half + hl[2]
               ELSE hl[1] * Half + hl[2]

\* Math.abs(h): a double, so the absolute value of -2^31 is 2^31.  The result
\* is kept as halves <<hi, lo>> of value hi * Half + lo.
MathAbsInt32(h) ==
  IF h >= 0 THEN <<h \div Half, h % Half>>
  ELSE IF h = (-(Half \div 2)) * Half THEN <<-(Half \div 2), 0>>
  ELSE <<(-h) \div Half, (-h) % Half>>
MathAbs(h) ==
  IF h >= 0 THEN <<h \div Half, h % Half>>
  ELSE LET m == -(h + 1)
       IN  IF m % Half = Half - 1 THEN <<(m \div Half) + 1, 0>>
           ELSE <<m \div Half, (m % Half) + 1>>

\* hl % m as JavaScript computes it: the remainder has the dividend's sign.
Rem(hl, m) ==
  IF hl[1] >= 0 THEN ((hl[1] % m) * (Half % m) + hl[2]) % m
  ELSE -((((-hl[1]) % m) * (Half % m) - hl[2]) % m)

\* The seed's hash: the loop and Math.abs (jitterHub 393-395, hashStr 443-447).
HashStr(codes) == MathAbs(ToInt32(HashFrom(0, 0, codes)))

\* Mutant: the hash accumulator is not reset between calls.
JitterHubCarried(codes) ==
  LET h == MathAbs(ToInt32(HashFrom(0, colorIdx, codes)))
  IN  [kind |-> "hub", code |-> "", r |-> Rem(h, 100), ang |-> Rem(h, 36000)]

\* jitterHub(seedStr): r = 10 + (h % 100) / 100 * 12 and ang = (h / 100) % 360
\* degrees; the point [r cos ang, r sin ang] is kept as (h % 100, h % 36000).
JitterHub(codes) ==
  LET h == HashStr(codes)
  IN  [kind |-> "hub", code |-> "", r |-> Rem(h, 100), ang |-> Rem(h, 36000)]

\* Number(evt.intensity_index || 1)
EvtIntensity(p) == IF p.ix = 0 THEN 1 ELSE p.ix

\* (evt.src_country || "").toUpperCase()
SrcCode(p) == ToUpperCase(p.src)
SrcSeed(code) == CharCodes("SRC|") \o CharCodes(code)
\* lookupCentroid(srcCode) || jitterHub("SRC|" + srcCode)
SourcePosition(code) ==
  IF LookupCentroid(code) THEN [kind |-> "centroid", code |-> code, r |-> 0, ang |-> 0]
  ELSE JitterHub(SrcSeed(code))

\* nextColor (main.js:129-130): COLORS[(colorIdx++) % COLORS.length], the
\* palette entry of the counter's value before the increment.  A colour is
\* modelled by its index in COLORS.
NextColorPreIncrement(idx) == (idx + 1) % COLORS_LENGTH
NextColor(idx) == idx % COLORS_LENGTH

\* The record handleSSEEvent pushes: n is the value of colorIdx that nextColor()
\* used.
NewArc(n, now, p) ==
  [n |-> n, born |-> now, progress |-> InitialT, alpha |-> AlphaScale,
   color |-> NextColor(n),
   srcCode |-> SrcCode(p), sourcePosition |-> SourcePosition(SrcCode(p)),
   intensity |-> EvtIntensity(p), width |-> WidthFromIntensity(EvtIntensity(p))]

(* ------------------------------- window ------------------------------- *)

\* The index at which the forward scan of pruneWindow stops.
RECURSIVE PruneIdx(_, _, _)
\* A comparison with NaN is false, so the scan stops at an entry whose ts is NaN.
PruneIdx(w, cutoff, idx) ==
  IF idx < Len(w) /\ w[idx + 1].ts # NotANumber /\ w[idx + 1].ts < cutoff
  THEN PruneIdx(w, cutoff, idx + 1) ELSE idx

\* Mutant: an entry exactly WINDOW_MS old is removed too.
PruneWindowInclusive(w, now) == SubSeq(w, PruneIdx(w, now - WINDOW_MS + 1, 0) + 1, Len(w))
PruneWindow(w, now) == SubSeq(w, PruneIdx(w, now - WINDOW_MS, 0) + 1, Len(w))

\* Number(evt.ts || Date.now()): a missing or zero ts (0 here) is the receive
\* time; a ts that is no number (a date string, say; NotANumber here) is truthy
\* and Number() makes it NaN.
EvtTs(p, now) == IF p.ts = 0 THEN now ELSE p.ts
\* srcCode || "??"
EvtCountry(p) == IF SrcCode(p) = "" THEN "??" ELSE SrcCode(p)

NewEntry(p, now) == [ts |-> EvtTs(p, now), country |-> EvtCountry(p), intensity |-> EvtIntensity(p)]

\* Mutant: every call sets the timer anew.
RescheduleAlways(tm, now) == now + DEBOUNCE_MS

\* scheduleInfographic(): a pending timer is kept, else one is set 150 ms ahead.
ScheduleInfographic(tm, now) == IF tm # 0 THEN tm ELSE now + DEBOUNCE_MS

RECURSIVE SumIntensity(_)
SumIntensity(w) == IF w = <<>> THEN 0 ELSE Head(w).intensity + SumIntensity(Tail(w))

\* The entries renderInfographic reads: it reads windowEvents as it stands.
StatsInput(w, now) == w

\* byCountry: a Map, one row per country in the order of first occurrence.
RECURSIVE ByCountry(_, _)
ByCountry(w, rows) ==
  IF w = <<>> THEN rows
  ELSE LET e == Head(w)
           idx == {i \in 1..Len(rows) : rows[i].country = e.country}
           k == CHOOSE i \in idx : TRUE
       IN  ByCountry(Tail(w),
             IF idx = {}
             THEN Append(rows, [country |-> e.country, count |-> 1, intensity |-> e.intensity])
             ELSE [rows EXCEPT ![k] = [country |-> e.country,
                                       count |-> rows[k].count + 1,
                                       intensity |-> rows[k].intensity + e.intensity]])

\* Mutant: the comparator orders by count alone.
CmpByCountOnly(a, b) == b.count - a.count

\* (a, b) => (b.count - a.count) || (b.intensity - a.intensity)
CmpRows(a, b) == IF b.count - a.count # 0 THEN b.count - a.count ELSE b.intensity - a.intensity

\* Array.prototype.sort is stable: x goes behind every row that does not sort after it.
InsertRow(s, x) ==
  LET k == Cardinality({i \in 1..Len(s) : \A j \in 1..i : CmpRows(s[j], x) <= 0})
  IN  SubSeq(s, 1, k) \o <<x>> \o SubSeq(s, k + 1, Len(s))

RECURSIVE SortRows(_, _)
SortRows(rows, sorted) ==
  IF rows = <<>> THEN sorted ELSE SortRows(Tail(rows), InsertRow(sorted, Head(rows)))

\* [...byCountry.entries()].sort(...).slice(0, 5)
TopRows(w) ==
  LET sorted == SortRows(ByCountry(w, <<>>), <<>>)
  IN  SubSeq(sorted, 1, Min(TOP_N, Len(sorted)))

\* renderInfographic(): events/min, total intensity and the top rows over windowEvents.
RenderInfographic(w, now) ==
  LET x == StatsInput(w, now)
  IN  [at |-> now,
       epm |-> Cardinality({i \in 1..Len(x) : x[i].ts >= now - ONE_MIN}),
       intensity |-> SumIntensity(x),
       top |-> TopRows(x)]

\* Mutant: a render that empties the log.
LogDrained(w, now) == <<>>

\* windowEvents after renderInfographic(): it only reads the array.
LogAfterRender(w, now) == w

(* ------------------------------ the camera ---------------------------- *)

\* currentViewState at the start: latitude 20, longitude -20, zoom 0.6, in tenths.
InitialViewState == [latitude |-> 200, longitude |-> -200, zoom |-> 6, rotationOrbit |-> 0]

\* Mutant: the zoom branch takes the proposed view state as it is.
Unlocked(prev, viewState) == viewState

\* const locked = {...viewState, latitude: prev.latitude, ...}
Locked(prev, viewState) ==
  [viewState EXCEPT !.latitude = prev.latitude,
                    !.longitude = prev.longitude,
                    !.rotationOrbit = prev.rotationOrbit]

\* prev + (proposed - prev) * PAN_SENSITIVITY
Damp(prev, proposed) == prev + (proposed - prev) \div PanDivisor

\* const slowed = {...viewState, latitude: ..., zoom: prev.zoom}
Slowed(prev, viewState) ==
  [viewState EXCEPT !.latitude = Damp(prev.latitude, viewState.latitude),
                    !.longitude = Damp(prev.longitude, viewState.longitude),
                    !.rotationOrbit = Damp(prev.rotationOrbit, viewState.rotationOrbit),
                    !.zoom = prev.zoom]

\* onViewStateChange({viewState, interactionState})
OnViewStateChange(viewState, isZooming, isDragging) ==
  /\ currentViewState' =
       IF isZooming THEN Locked(currentViewState, viewState)
       ELSE IF isDragging THEN Slowed(currentViewState, viewState)
       ELSE viewState
  /\ viewInput' = [viewState |-> viewState, isZooming |-> isZooming, isDragging |-> isDragging]
  /\ ev' = <<"view", 0>>
  /\ UNCHANGED <<connVars, pageVars, isInteracting, draggingNow, elapsed>>

\* onInteractionStateChange(s)
OnInteractionStateChange(isDragging, isZooming) ==
  /\ draggingNow' = isDragging
  /\ isInteracting' = (isDragging \/ isZooming)
  /\ ev' = <<"interaction", 0>>
  /\ UNCHANGED <<connVars, pageVars, currentViewState, viewInput, elapsed>>

(* ------------------------------ connectSSE ---------------------------- *)

\* Mutant: the loop starts from the last candidate whatever its index.
ProbeLast(f, e, I, v, i) ==
  /\ HasFree(f)
  /\ LET s == NewSlot(f) IN
       /\ tr' = [f EXCEPT ![s] = [rs |-> "connecting", url |-> NumCandidates,
                                  h |-> "probe", gen |-> v.gen]]
       /\ invs' = I \cup {[v EXCEPT !.i = NumCandidates, !.src = s]}
  /\ es' = e

\* new EventSource(url) for candidate i, and the await of its open against the
\* open-timeout: the invocation v is suspended on source s.
Probe(f, e, I, v, i) ==
  /\ HasFree(f)
  /\ LET s == NewSlot(f) IN
       /\ tr' = [f EXCEPT ![s] = [rs |-> "connecting", url |-> i, h |-> "probe", gen |-> v.gen]]
       /\ invs' = I \cup {[v EXCEPT !.i = i, !.src = s]}
  /\ es' = e

\* connectSSE() up to its first await: the previous transport is closed and es
\* cleared, then the first candidate is probed.
ConnectSSE(g, e, d) ==
  LET tr1 == CloseT(tr, e[g])
      es1 == [e EXCEPT ![g] = 0]
      I0 == {[v EXCEPT !.superseded = TRUE] : v \in invs}
      tr2 == GC(tr1, es1, d, I0)
  IN  Probe(tr2, es1, I0,
            [gen |-> g, i |-> 1, src |-> 0, superseded |-> FALSE, t |-> OPEN_TIMEOUT_MS], 1)

\* A pending setTimeout(connectSSE, delay) fires.
RetryTimerFires(tm) ==
  /\ BagIn(tm, timers)
  /\ timers' = timers (-) SetToBag({tm})
  /\ ConnectSSE(tm.gen, es, ddos_es)
  /\ ev' = <<"connect", 0>>
  /\ UNCHANGED <<viewVars, ddos_es, status, curGen, hot, leaked, good, pageVars, elapsed>>

\* The open-timeout of the awaited probe fires: the promise rejects, the catch
\* logs, and the loop goes on to the next candidate, or, after the last one,
\* shows "Unable to connect" and schedules a full retry.  The probe is not closed.
ProbeTimeout(v) ==
  /\ v \in invs
  /\ ~(good = v.i /\ tr[v.src].rs = "connecting")
  /\ LET src == v.src
         tr1 == [tr EXCEPT ![src] = FreeRec]
         rest == invs \ {v}
     IN  /\ leaked' = IF Live(tr[src])
                      THEN AddLeak(leaked, [url |-> tr[src].url, rs |-> tr[src].rs])
                      ELSE leaked
         /\ IF v.i < NumCandidates
            THEN /\ Probe(tr1, es, rest, v, v.i + 1)
                 /\ UNCHANGED <<timers, status>>
            ELSE /\ tr' = tr1
                 /\ invs' = rest
                 /\ status' = "unable"
                 /\ timers' = ScheduleRetry(timers, v.gen, RETRY_ALL_DELAY_MS)
                 /\ es' = es
  /\ ev' = IF v.i < NumCandidates THEN <<"probe_timeout", 0>> ELSE <<"all_failed", 0>>
  /\ UNCHANGED <<viewVars, ddos_es, curGen, hot, good, pageVars, elapsed>>

\* es = source (line 492): the transport the resumed invocation adopts.
AdoptedSource(v) == v.src

\* Mutant: the late open of an abandoned probe shows "Live data connected", as
\* if the handlers of an adopted transport had been installed on the probe.
LateOpenShowsConnected(s) == "connected"

\* The probe's onopen after its promise was rejected: clearTimeout of a fired
\* timer and resolve() of a settled promise; the status text is not touched.
StatusAfterLateOpen(s) == s

\* Mutant: onerror without es.close(), the browser goes on retrying the transport.
OnErrorNoClose(f, t) == f

\* try { es.close(); } catch {} in the adopted transport's onerror: es is the
\* module-level variable of the instance that installed the handler.
OnErrorClose(f, t) == CloseT(f, t)

\* A transport in the slots signals "open".  For the awaited probe the promise
\* resolves and connectSSE resumes: it adopts the source, installs onopen,
\* onmessage and onerror, and returns.  For an adopted transport (reopened by
\* the browser) es.onopen runs.
TransportOpen(t) ==
  /\ tr[t].rs = "connecting"
  /\ IF \E v \in invs : v.src = t
     THEN LET v == CHOOSE x \in invs : x.src = t
              a == AdoptedSource(v)
              es1 == [es EXCEPT ![v.gen] = a]
              I1 == invs \ {v}
          IN  /\ es' = es1
              /\ ddos_es' = a
              /\ invs' = I1
              /\ tr' = GC([tr EXCEPT ![t].rs = "open", ![a].h = "adopted"], es1, a, I1)
              /\ status' = status
              /\ ev' = <<"probe_open", t>>
     ELSE /\ tr' = [tr EXCEPT ![t].rs = "open"]
          /\ status' = IF tr[t].h = "adopted" THEN "connected" ELSE status
          /\ ev' = <<"reopen", 0>>
          /\ UNCHANGED <<es, ddos_es, invs>>
  /\ UNCHANGED <<viewVars, timers, curGen, hot, leaked, good, pageVars, elapsed>>

\* A transport in the slots signals "error": the browser either retries
\* (readyState CONNECTING) or gives up (CLOSED).  The probe's onerror is empty;
\* the adopted transport's onerror shows "Reconnecting", closes es and schedules
\* connectSSE.
TransportError(t, fatal) ==
  /\ Live(tr[t])
  /\ ~(fatal /\ good = tr[t].url /\ tr[t].h = "probe")
  /\ LET tr1 == [tr EXCEPT ![t].rs = IF fatal THEN "closed" ELSE "connecting"]
         g == tr[t].gen
     IN  IF tr[t].h = "adopted"
         THEN /\ status' = "reconnecting"
              /\ tr' = GC(OnErrorClose(tr1, es[g]), es, ddos_es, invs)
              /\ timers' = ScheduleRetry(timers, g, RECONNECT_DELAY_MS)
              /\ ev' = <<"adopted_error", t>>
         ELSE /\ tr' = tr1
              /\ ev' = <<"probe_error", 0>>
              /\ UNCHANGED <<status, timers>>
  /\ UNCHANGED <<viewVars, invs, es, ddos_es, curGen, hot, leaked, good, pageVars, elapsed>>

\* An abandoned probe opens after its timeout.
LeakedOpen(l) ==
  /\ BagIn(l, leaked)
  /\ l.rs = "connecting"
  /\ leaked' = (leaked (-) SetToBag({l})) (+) SetToBag({[l EXCEPT !.rs = "open"]})
  /\ status' = StatusAfterLateOpen(status)
  /\ ev' = <<"leaked_open", l.url>>
  /\ UNCHANGED <<viewVars, tr, invs, timers, es, ddos_es, curGen, hot, good, pageVars, elapsed>>

\* An abandoned probe signals "error"; its onerror is empty.
LeakedError(l, fatal) ==
  /\ BagIn(l, leaked)
  /\ leaked' = IF fatal
               THEN leaked (-) SetToBag({l})
               ELSE (leaked (-) SetToBag({l})) (+) SetToBag({[l EXCEPT !.rs = "connecting"]})
  /\ ev' = <<"leaked_error", l.url>>
  /\ UNCHANGED <<viewVars, tr, invs, timers, es, ddos_es, status, curGen, hot, good, pageVars, elapsed>>

(* --------------------------- handleSSEEvent --------------------------- *)

\* handleSSEEvent(evt) on the arrays of the current module instance.
\* A payload that makes handleSSEEvent throw does so while the event's fields
\* are read (main.js:401-405), before arcs.push at 410: the list is as it was.
ArcsPushedAtThrow(s, n, now, p) == CapArcs(Append(s, NewArc(n, now, p)))
ArcsAtThrow(s, n, now, p) == s

HandleSSEEvent(p, cap) ==
  /\ colorIdx < cap
  /\ arcs' = CapArcs(Append(arcs, NewArc(colorIdx, perfNow, p)))
  /\ colorIdx' = colorIdx + 1
  /\ windowEvents' = PruneWindow(Append(windowEvents, NewEntry(p, dateNow)), dateNow)
  /\ infographicTimer' = ScheduleInfographic(infographicTimer, dateNow)
  /\ kpi' = kpi
  /\ frameAt' = frameAt

\* es.onmessage: a payload JSON.parse rejects ("malformed") is logged and
\* dropped; otherwise the status text is set and handleSSEEvent runs, which
\* either throws before it changes anything ("thrower": a payload that is not an
\* object with string country codes) or admits the event ("event").
OnMessage(t, p, cap) ==
  /\ tr[t].rs = "open"
  /\ tr[t].h = "adopted"
  /\ IF p.kind = "malformed"
     THEN UNCHANGED <<status, pageVars>>
     ELSE /\ status' = "connected"
          /\ IF p.kind = "event" /\ tr[t].gen = curGen
             THEN HandleSSEEvent(p, cap)
             ELSE /\ arcs' = ArcsAtThrow(arcs, colorIdx, perfNow, p)
                  /\ UNCHANGED <<colorIdx, windowEvents, infographicTimer, kpi, frameAt>>
  /\ ev' = <<CASE p.kind = "malformed" -> "bad_payload"
                [] p.kind = "event" /\ tr[t].gen = curGen -> "event"
                [] OTHER -> "threw", 0>>
  /\ UNCHANGED <<viewVars, tr, invs, timers, es, ddos_es, curGen, hot, leaked, good, elapsed>>

(* ------------------------- frames, timers, clock ---------------------- *)

\* animateArcs(): one animation frame; requestAnimationFrame runs it once per
\* display refresh, so no two frames read the same millisecond.
AnimateArcs ==
  /\ perfNow > frameAt
  /\ arcs' = AnimateAll(arcs, perfNow)
  /\ frameAt' = perfNow
  /\ ev' = <<"frame", 0>>
  /\ UNCHANGED <<viewVars, connVars, colorIdx, windowEvents, infographicTimer, kpi, elapsed>>

\* The debounce timer fires: infographicTimer = null; renderInfographic().
InfographicTimerFires ==
  /\ infographicTimer # 0
  /\ dateNow >= infographicTimer
  /\ infographicTimer' = 0
  /\ kpi' = RenderInfographic(windowEvents, dateNow)
  /\ windowEvents' = LogAfterRender(windowEvents, dateNow)
  /\ ev' = <<"render", 0>>
  /\ UNCHANGED <<viewVars, connVars, arcs, colorIdx, frameAt, elapsed>>

\* Time passes until the next task runs, at the instant e.
AdvanceTo(e) ==
  /\ e > elapsed
  /\ elapsed' = e
  /\ ev' = <<"clock", 0>>
  /\ UNCHANGED <<viewVars, connVars, pageVars>>

(* ----------------------------- hot reload ----------------------------- *)

\* import.meta.hot.dispose: es?.close(); delete globalThis.__ddos_es.  Pending
\* timers and suspended invocations of the disposed instance stay.
Dispose ==
  /\ hot = "running"
  /\ curGen < MaxGen
  /\ hot' = "disposed"
  /\ ddos_es' = 0
  /\ tr' = GC(CloseT(tr, es[curGen]), es, 0, invs)
  /\ ev' = <<"dispose", 0>>
  /\ UNCHANGED <<viewVars, invs, timers, es, status, curGen, leaked, good, pageVars, elapsed>>

\* The new module instance is evaluated: fresh arrays, es read from
\* globalThis.__ddos_es, and the kick-off call of connectSSE().
ModuleStart ==
  /\ hot = "disposed"
  /\ hot' = "running"
  /\ curGen' = curGen + 1
  /\ ConnectSSE(curGen + 1, [es EXCEPT ![curGen + 1] = ddos_es], ddos_es)
  /\ arcs' = <<>>
  /\ colorIdx' = 0
  /\ windowEvents' = <<>>
  /\ infographicTimer' = 0
  /\ frameAt' = perfNow
  /\ currentViewState' = InitialViewState
  /\ isInteracting' = FALSE
  /\ draggingNow' = FALSE
  /\ ev' = <<"connect", 0>>
  /\ UNCHANGED <<timers, ddos_es, status, leaked, good, kpi, viewInput, elapsed>>

\* From now on candidate c opens within its open-timeout.
EnvHeals(c) ==
  /\ good = 0
  /\ good' = c
  /\ ev' = <<"heal", 0>>
  /\ UNCHANGED <<viewVars, tr, invs, timers, es, ddos_es, status, curGen, hot, leaked, pageVars, elapsed>>

(* ------------------------------- inputs ------------------------------- *)

\* Payloads of the feed: ts 0 stands for a payload without ts.
StaleTs == DateStart - WINDOW_MS - 1
ConnPayloads ==
  {[kind |-> k, ts |-> 0, src |-> "US", ix |-> 1] : k \in {"malformed", "thrower", "event"}}
ArcPayloads == {[kind |-> "event", ts |-> 0, src |-> "US", ix |-> 1]}
WinPayloads ==
  {[kind |-> "event", ts |-> 0, src |-> "US", ix |-> 0],
   [kind |-> "event", ts |-> StaleTs, src |-> "", ix |-> 2]}

\* Payloads for the statistics: countries with equal counts, a negative intensity.
StatsPayloads ==
  {[kind |-> "event", ts |-> 0, src |-> "US", ix |-> 0],
   [kind |-> "event", ts |-> 0, src |-> "US", ix |-> 2],
   [kind |-> "event", ts |-> 0, src |-> "DE", ix |-> 1],
   [kind |-> "event", ts |-> 0, src |-> "", ix |-> -2]}
StatsTimes == {DEBOUNCE_MS, ONE_MIN, ONE_MIN + DEBOUNCE_MS}
\* The debounce: bursts of one payload around the 150 ms delay; messages stop
\* at LastBurst so that every timer set is due within DebounceTimes.
DebouncePayloads == {[kind |-> "event", ts |-> 0, src |-> "US", ix |-> 0]}
DebounceTimes == {DEBOUNCE_MS - 1, DEBOUNCE_MS, 2 * DEBOUNCE_MS, 3 * DEBOUNCE_MS, ONE_MIN}
LastBurst == 3 * DEBOUNCE_MS

\* Payloads for the coordinates: unknown countries, in both cases, and a known one.
HubPayloads ==
  {[kind |-> "event", ts |-> 0, src |-> c, ix |-> 1] : c \in {"", "ZZ", "zz", "US"}}
HubTimes == {TRAVEL_MS \div 2, TRAVEL_MS + FADE_MS}

\* The view states the controller proposes: the camera moved along one
\* coordinate or along all, with one of the zoom levels.
ViewStep == PanDivisor * ViewUnit
ViewDeltas ==
  {<<0, 0, 0>>, <<ViewStep, 0, 0>>, <<ViewStep, -ViewStep, ViewStep>>,
   <<-ViewStep, ViewStep, -ViewStep>>}
ZoomLevels == {6, 10}
Proposal(d, z) ==
  [latitude |-> currentViewState.latitude + d[1],
   longitude |-> currentViewState.longitude + d[2],
   rotationOrbit |-> currentViewState.rotationOrbit + d[3],
   zoom |-> z]
ViewReach == ViewStep + MaxPan * ViewUnit
InReach(v) ==
  /\ v.latitude - InitialViewState.latitude \in -ViewReach..ViewReach
  /\ v.longitude - InitialViewState.longitude \in -ViewReach..ViewReach
  /\ v.rotationOrbit - InitialViewState.rotationOrbit \in -ViewReach..ViewReach

\* Payloads for the widths: intensities below, within and above the clamp, and
\* a negative one.
WidthPayloads ==
  {[kind |-> "event", ts |-> 0, src |-> "US", ix |-> x] : x \in {0, 2, 20, -2}}
WidthTimes == {TRAVEL_MS, TRAVEL_MS + FADE_MS \div 2, TRAVEL_MS + FADE_MS}

\* The instants (ms after the first) at which tasks run.
ArcTimes == {4, 1199, 1200, 2200, 3199, 3200}
WinTimes == {DEBOUNCE_MS, 2 * DEBOUNCE_MS, ONE_MIN, WINDOW_MS, WINDOW_MS + 1,
             WINDOW_MS + DEBOUNCE_MS, WINDOW_MS + ONE_MIN, 2 * WINDOW_MS}

(* -------------------------------- specs ------------------------------- *)

\* The page after main.js ran to its end: connectSSE() is suspended on the
\* probe of the first candidate, animateArcs() has run on an empty array.
InitPage ==
  /\ tr = [t \in Slots |-> IF t = 1
                           THEN [rs |-> "connecting", url |-> 1, h |-> "probe", gen |-> 1]
                           ELSE FreeRec]
  /\ invs = {[gen |-> 1, i |-> 1, src |-> 1, superseded |-> FALSE, t |-> OPEN_TIMEOUT_MS]}
  /\ timers = EmptyBag
  /\ es = [g \in Gens |-> 0]
  /\ ddos_es = 0
  /\ status = "initial"
  /\ curGen = 1
  /\ hot = "running"
  /\ leaked = EmptyBag
  /\ good = 0
  /\ arcs = <<>>
  /\ colorIdx = 0
  /\ windowEvents = <<>>
  /\ infographicTimer = 0
  /\ kpi = [at |-> 0, epm |-> 0, intensity |-> 0, top |-> <<>>]
  /\ currentViewState = InitialViewState
  /\ isInteracting = FALSE
  /\ draggingNow = FALSE
  /\ viewInput = [viewState |-> InitialViewState, isZooming |-> FALSE, isDragging |-> FALSE]
  /\ ev = <<"init", 0>>

\* The next animation frame is due: the last one ran a millisecond ago.
Init == InitPage /\ elapsed = 0 /\ frameAt = perfNow - 1

\* The same page while performance.now() still reads 0: the time origin is the
\* start of the navigation and the browser rounds the clock down to its resolution.
InitAtOrigin == InitPage /\ elapsed = -PerfStart /\ frameAt = perfNow - 1

\* The connection manager of the production page (import.meta.hot is undefined
\* there), with messages of each kind and the clock standing.
NextConn ==
  \/ \E tm \in BagToSet(timers) : RetryTimerFires(tm)
  \/ \E v \in invs : ProbeTimeout(v)
  \/ \E t \in Slots : TransportOpen(t)
  \/ \E t \in Slots, fatal \in BOOLEAN : TransportError(t, fatal)
  \/ \E l \in BagToSet(leaked) : LeakedOpen(l)
  \/ \E l \in BagToSet(leaked), fatal \in BOOLEAN : LeakedError(l, fatal)
  \/ \E t \in Slots, p \in ConnPayloads : OnMessage(t, p, ConnEvents)
  \/ \E c \in Candidates : EnvHeals(c)

SpecConn == Init /\ [][NextConn]_vars

\* Timers fire: a pending retry timer, and the open-timeout of an awaited probe.
\* Once candidate good opens within its timeout, its awaited probe does open.
ConnFairness ==
  /\ WF_vars(\E tm \in BagToSet(timers) : RetryTimerFires(tm))
  /\ WF_vars(\E v \in invs : ProbeTimeout(v))
  /\ WF_vars(\E t \in Slots : good = tr[t].url /\ tr[t].h = "probe" /\ TransportOpen(t))

SpecConnLive == Init /\ [][NextConn]_vars /\ ConnFairness

\* The connection manager under the dev server, where the module is hot-reloaded.
NextHot ==
  \/ \E tm \in BagToSet(timers) : RetryTimerFires(tm)
  \/ \E v \in invs : ProbeTimeout(v)
  \/ \E t \in Slots : TransportOpen(t)
  \/ \E t \in Slots, fatal \in BOOLEAN : TransportError(t, fatal)
  \/ \E l \in BagToSet(leaked) : LeakedOpen(l)
  \/ \E l \in BagToSet(leaked), fatal \in BOOLEAN : LeakedError(l, fatal)
  \/ \E t \in Slots, p \in ConnPayloads : OnMessage(t, p, ConnEvents)
  \/ Dispose
  \/ ModuleStart

SpecHot == Init /\ [][NextHot]_vars

\* The arc list: the first candidate opens, then messages, frames and time.
NextArcs ==
  \/ \E t \in Slots : TransportOpen(t)
  \/ \E t \in Slots, p \in ArcPayloads : OnMessage(t, p, MaxEvents)
  \/ AnimateArcs
  \/ \E e \in ArcTimes : AdvanceTo(e)

SpecArcs == Init /\ [][NextArcs]_vars

\* The widths: messages of several intensities, frames and time.
\* Message intake: well-formed, throwing and unparsable messages, with frames
\* and the statistics timer in between.
IntakeTimes == {DEBOUNCE_MS, TRAVEL_MS + FADE_MS}
NextIntake ==
  \/ \E t \in Slots : TransportOpen(t)
  \/ \E t \in Slots, p \in ConnPayloads : OnMessage(t, p, IntakeEvents)
  \/ AnimateArcs
  \/ InfographicTimerFires
  \/ \E e \in IntakeTimes : AdvanceTo(e)

SpecIntake == Init /\ [][NextIntake]_vars

NextWidth ==
  \/ \E t \in Slots : TransportOpen(t)
  \/ \E t \in Slots, p \in WidthPayloads : OnMessage(t, p, MaxEvents)
  \/ AnimateArcs
  \/ \E e \in WidthTimes : AdvanceTo(e)

SpecWidth == Init /\ [][NextWidth]_vars

\* The arc list from the time origin of performance.now().
SpecOrigin == InitAtOrigin /\ [][NextArcs]_vars

\* The window: the first candidate opens, then messages, the debounce timer and time.
NextWin ==
  \/ \E t \in Slots : TransportOpen(t)
  \/ \E t \in Slots, p \in WinPayloads : OnMessage(t, p, MaxEvents)
  \/ InfographicTimerFires
  \/ \E e \in WinTimes : AdvanceTo(e)

SpecWin == Init /\ [][NextWin]_vars

\* Timestamps of the feed: none, and one that is not a number.
TsPayloads ==
  {[kind |-> "event", ts |-> s, src |-> "US", ix |-> 1] : s \in {0, NotANumber}}
TsTimes == {DEBOUNCE_MS, WINDOW_MS, WINDOW_MS + DEBOUNCE_MS, 2 * WINDOW_MS}
NextTs ==
  \/ \E t \in Slots : TransportOpen(t)
  \/ \E t \in Slots, p \in TsPayloads : OnMessage(t, p, MaxEvents)
  \/ \E e \in TsTimes : AdvanceTo(e)

SpecTs == Init /\ [][NextTs]_vars

\* The coordinates: messages of known and unknown countries, frames and time.
NextHub ==
  \/ \E t \in Slots : TransportOpen(t)
  \/ \E t \in Slots, p \in HubPayloads : OnMessage(t, p, MaxEvents)
  \/ AnimateArcs
  \/ InfographicTimerFires
  \/ \E e \in HubTimes : AdvanceTo(e)

SpecHub == Init /\ [][NextHub]_vars

\* Seeds of the fallback hash: the empty code, an unknown code, and a code
\* whose seed "SRC|ABPAVXNB" hashes to -2^31, the minimum 32-bit integer.
HashPayloads ==
  {[kind |-> "event", ts |-> 0, src |-> c, ix |-> 1] : c \in {"", "ZZ", "ABPAVXNB"}}
NextHash ==
  \/ \E t \in Slots : TransportOpen(t)
  \/ \E t \in Slots, p \in HashPayloads : OnMessage(t, p, MaxEvents)
  \/ AnimateArcs
  \/ \E e \in HubTimes : AdvanceTo(e)

SpecHash == Init /\ [][NextHash]_vars

\* The camera: view-state updates with any interaction state, gesture flags, frames.
NextView ==
  \/ \E d \in ViewDeltas, z \in ZoomLevels, isZooming \in BOOLEAN, isDragging \in BOOLEAN :
       /\ OnViewStateChange(Proposal(d, z), isZooming, isDragging)
       /\ InReach(currentViewState')
  \/ \E isDragging \in BOOLEAN, isZooming \in BOOLEAN :
       OnInteractionStateChange(isDragging, isZooming)
  \/ AnimateArcs

SpecView == Init /\ [][NextView]_vars

\* The statistics: messages of several countries, the debounce timer and time.
NextStats ==
  \/ \E t \in Slots : TransportOpen(t)
  \/ \E t \in Slots, p \in StatsPayloads : OnMessage(t, p, MaxEvents)
  \/ InfographicTimerFires
  \/ \E e \in StatsTimes : AdvanceTo(e)

SpecStats == Init /\ [][NextStats]_vars

\* The debounce under fair timers: the clock advances and a due timer fires.
NextDebounce ==
  \/ \E t \in Slots : TransportOpen(t)
  \/ \E t \in Slots, p \in DebouncePayloads :
       elapsed <= LastBurst /\ OnMessage(t, p, MaxEvents)
  \/ InfographicTimerFires
  \/ \E e \in DebounceTimes : AdvanceTo(e)

DebounceFairness ==
  /\ WF_vars(InfographicTimerFires)
  /\ WF_vars(\E e \in DebounceTimes : AdvanceTo(e))

SpecDebounce == Init /\ [][NextDebounce]_vars /\ DebounceFairness

Next ==
  \/ NextHot
  \/ NextView
  \/ \E c \in Candidates : EnvHeals(c)
  \/ AnimateArcs
  \/ InfographicTimerFires
  \/ \E t \in Slots, p \in WinPayloads : OnMessage(t, p, MaxEvents)
  \/ \E e \in ArcTimes \cup WinTimes : AdvanceTo(e)

Spec == Init /\ [][Next]_vars

(* ======================= the connection manager ======================= *)

LiveCount == Cardinality({t \in Slots : Live(tr[t])}) + BagCardinality(leaked)

\* C1: at every moment at most one event-feed transport is live (created and
\* not yet closed), abandoned probes included.
C1_AtMostOneLive == LiveCount <= 1

PendingAttempts(g) == TimerCount(g) + Cardinality({v \in invs : v.gen = g})
AdoptedLive(g) == {t \in Slots : Live(tr[t]) /\ tr[t].h = "adopted" /\ tr[t].gen = g}

\* C2: an error of the adopted transport closes that transport, shows
\* "Reconnecting" and schedules one connectSSE after 2000 ms; a module instance
\* never has two connect attempts pending or running, nor an attempt beside a
\* live adopted transport, nor two live adopted transports.
C2_ErrorStep ==
  ev'[1] = "adopted_error" =>
    LET t == ev'[2]
        g == tr[t].gen
    IN  /\ tr'[t].rs = "closed"
        /\ status' = "reconnecting"
        /\ timers' = timers (+) SetToBag({[gen |-> g, delay |-> RECONNECT_DELAY_MS]})
        /\ invs' = invs
        /\ \A u \in Slots : ~(Live(tr'[u]) /\ tr'[u].h = "adopted" /\ tr'[u].gen = g)
C2_OneAttempt ==
  \A g \in Gens : PendingAttempts(g) + Cardinality(AdoptedLive(g)) <= 1
C2_ErrorReconnectsOnce == []C2_OneAttempt /\ [][C2_ErrorStep]_vars
C2_Witness ==
  /\ ev[1] = "adopted_error"
  /\ status = "reconnecting"
  /\ timers = SetToBag({[gen |-> 1, delay |-> RECONNECT_DELAY_MS]})
  /\ es[1] # 0 /\ tr[es[1]].rs = "closed"

\* C3: when the first candidate times out and the second opens, es is bound to
\* the open transport of the second candidate; whatever an abandoned probe
\* signals afterwards changes neither the transports of the program, es,
\* globalThis.__ddos_es, the status text nor any pending attempt.
C3_AdoptStep ==
  ev'[1] = "probe_open" =>
    \E v \in invs :
      /\ v.src = ev'[2]
      /\ es'[v.gen] = v.src
      /\ tr'[v.src] = [rs |-> "open", url |-> v.i, h |-> "adopted", gen |-> v.gen]
      /\ \A w \in invs' : w.gen # v.gen
      /\ status' = status
C3_LateSignalStep ==
  ev'[1] \in {"leaked_open", "leaked_error"} =>
    UNCHANGED <<tr, invs, timers, es, ddos_es, status>>
C3_BoundToOpen ==
  \A g \in Gens : es[g] # 0 /\ Live(tr[es[g]]) =>
     tr[es[g]].rs = "open" /\ tr[es[g]].h = "adopted"
C3_AbandonedProbeInert ==
  []C3_BoundToOpen /\ [][C3_AdoptStep /\ C3_LateSignalStep]_vars
C3_Witness ==
  /\ ev = <<"leaked_open", 1>>
  /\ BagIn([url |-> 1, rs |-> "open"], leaked)
  /\ es[1] # 0 /\ tr[es[1]].url = 2 /\ tr[es[1]].rs = "open"
  /\ invs = {} /\ timers = EmptyBag

\* C4: a probe of an invocation that a newer connectSSE() call has superseded
\* is never adopted and never gets the message and error handlers.
C4_SupersededNeverAdopted ==
  [][ev'[1] = "probe_open" => \A v \in invs : v.src = ev'[2] => ~v.superseded]_vars

IsOpen == \E g \in Gens : es[g] # 0 /\ tr[es[g]].rs = "open"

\* C5: after an error of the adopted transport and after a cycle in which every
\* candidate timed out a retry timer is pending; a pending retry timer leads to
\* a running connect attempt; and once some candidate opens within its timeout
\* the manager gets to an open adopted transport, again and again.
C5_RetryPending ==
  ev[1] \in {"adopted_error", "all_failed"} => timers # EmptyBag
C5_NeverStopsTrying ==
  /\ []C5_RetryPending
  /\ (timers # EmptyBag) ~> (invs # {})
  /\ (good # 0) ~> IsOpen
C5_Witness ==
  /\ good = NumCandidates
  /\ IsOpen
  /\ tr[es[1]].url = good
  /\ status = "connected"
  /\ leaked # EmptyBag

(* ============================ the arc list ============================ *)

\* Pairs (i, j): arcs[i] before the step and arcs'[j] after it are the same record.
SameArc(i, j) == i \in 1..Len(arcs) /\ j \in 1..Len(arcs') /\ arcs'[j].n = arcs[i].n

\* C6: the arc list never holds more than MAX_ARCS records, in insertion order;
\* an admission keeps the new record last and, over the cap, removes exactly the
\* oldest records until the size is MAX_ARCS.
C6_Capped ==
  /\ Len(arcs) <= MAX_ARCS
  /\ \A i, j \in 1..Len(arcs) : i < j => arcs[i].n < arcs[j].n
C6_AdmitStep ==
  colorIdx' = colorIdx + 1 =>
    LET dropped == Len(arcs) + 1 - Len(arcs')
    IN  /\ Len(arcs') = Min(Len(arcs) + 1, MAX_ARCS)
        /\ arcs'[Len(arcs')].n = colorIdx
        /\ \A j \in 1..(Len(arcs') - 1) : arcs'[j] = arcs[j + dropped]
C6_CapFifo == []C6_Capped /\ [][C6_AdmitStep]_vars
C6_Witness ==
  /\ ev[1] = "event"
  /\ colorIdx = MAX_ARCS + 1
  /\ Len(arcs) = MAX_ARCS
  /\ arcs[1].n = 1
  /\ elapsed < TRAVEL_MS + FADE_MS

\* C7: no step lowers the progress of a record that stays in the list, the
\* value given at admission included.
C7_ProgressMonotone ==
  [][\A i \in 1..Len(arcs), j \in 1..Len(arcs') :
       SameArc(i, j) => arcs'[j].progress >= arcs[i].progress]_vars

\* C8: alpha is 1 while progress is below 1 and stays within [0, 1]; no step
\* raises the alpha of a record, and a step lowers it only once progress is 1.
C8_AlphaRange ==
  \A i \in 1..Len(arcs) :
    /\ arcs[i].progress < ProgressScale => arcs[i].alpha = AlphaScale
    /\ 0 <= arcs[i].alpha /\ arcs[i].alpha <= AlphaScale
C8_AlphaStep ==
  \A i \in 1..Len(arcs), j \in 1..Len(arcs') :
    SameArc(i, j) =>
      /\ arcs'[j].alpha <= arcs[i].alpha
      /\ arcs'[j].alpha < arcs[i].alpha => arcs'[j].progress >= ProgressScale
C8_AlphaFadesAfterTravel == []C8_AlphaRange /\ [][C8_AlphaStep]_vars
C8_Witness ==
  /\ ev[1] = "frame"
  /\ \E i, j \in 1..Len(arcs) :
       /\ arcs[i].progress = ProgressScale
       /\ 0 < arcs[i].alpha /\ arcs[i].alpha < AlphaScale
       /\ arcs[j].progress < ProgressScale /\ arcs[j].progress > InitialT

(* ============================= the window ============================= *)

IsStale(e, now) == e.ts < now - WINDOW_MS

\* C9: after pruneWindow(now) the log holds no entry older than now - WINDOW_MS.
\* (handleSSEEvent ends with pruneWindow(Date.now()).)
C9_PruneLeavesNoExpired ==
  ev[1] = "event" => \A i \in 1..Len(windowEvents) : ~IsStale(windowEvents[i], dateNow)

\* C10: the statistics renderInfographic shows count no entry that is older than
\* the window at the time they are computed.
C10_StatsCountNoStale ==
  ev[1] = "render" =>
    LET Fresh(e) == ~IsStale(e, dateNow)
    IN  kpi.intensity = SumIntensity(SelectSeq(windowEvents, Fresh))

(* ============================ the statistics ========================== *)

EntriesOf(c) == LET FromC(e) == e.country = c IN SelectSeq(windowEvents, FromC)
LoggedCountries == {windowEvents[i].country : i \in 1..Len(windowEvents)}
\* Row a does not rank below row b: more events, or as many and no less intensity.
RanksNoLower(a, b) ==
  a.count > b.count \/ (a.count = b.count /\ a.intensity >= b.intensity)

\* C11: what renderInfographic shows is: events/min = entries of the last 60000 ms;
\* total intensity = sum over all entries; top = one row per country (its count and
\* summed intensity), by count descending, ties by intensity descending, cut to TOP_N.
C11_StatsAsSpecified ==
  ev[1] = "render" =>
    LET top == kpi.top
        shown == {top[i].country : i \in 1..Len(top)}
    IN  /\ kpi.epm = Cardinality({i \in 1..Len(windowEvents) :
                                    windowEvents[i].ts >= dateNow - ONE_MIN})
        /\ kpi.intensity = SumIntensity(windowEvents)
        /\ Len(top) = Min(TOP_N, Cardinality(LoggedCountries))
        /\ \A i \in 1..Len(top) :
             /\ top[i].country \in LoggedCountries
             /\ top[i].count = Len(EntriesOf(top[i].country))
             /\ top[i].intensity = SumIntensity(EntriesOf(top[i].country))
        /\ \A i, j \in 1..Len(top) :
             i < j => top[i].country # top[j].country /\ RanksNoLower(top[i], top[j])
        /\ \A c \in LoggedCountries \ shown : \A i \in 1..Len(top) :
             RanksNoLower(top[i], [count |-> Len(EntriesOf(c)),
                                   intensity |-> SumIntensity(EntriesOf(c))])
C11_Witness ==
  /\ ev[1] = "render"
  /\ Len(windowEvents) = 3
  /\ [i \in 1..3 |-> <<windowEvents[i].country, windowEvents[i].intensity>>]
       = << <<"US", 1>>, <<"US", 2>>, <<"DE", 1>> >>
  /\ kpi.epm = 3
  /\ kpi.intensity = 4
  /\ kpi.top = << [country |-> "US", count |-> 2, intensity |-> 3],
                  [country |-> "DE", count |-> 1, intensity |-> 1] >>

\* C12: renderInfographic leaves the log as it was, and a second call at the same
\* instant, with no event recorded in between, computes the same statistics.
C12_RenderStep ==
  ev'[1] = "render" =>
    /\ windowEvents' = windowEvents
    /\ RenderInfographic(windowEvents', kpi'.at) = kpi'
C14_IntensityAtLeastOne ==
  \A i \in 1..Len(windowEvents) : windowEvents[i].intensity >= 1

\* C15: an event leaves a pending refresh timer as it is and sets one, 150 ms
\* ahead, when none is pending; a refresh runs only when the one timer is due, at
\* least 150 ms after the refresh before it; after every recorded event a
\* refresh eventually runs.
C15_EventStep ==
  ev'[1] = "event" =>
    infographicTimer' = IF infographicTimer # 0 THEN infographicTimer
                        ELSE dateNow + DEBOUNCE_MS
C15_RefreshStep ==
  ev'[1] = "render" =>
    /\ infographicTimer # 0
    /\ infographicTimer' = 0
    /\ kpi'.at >= infographicTimer
    /\ kpi'.at >= kpi.at + DEBOUNCE_MS
C15_Debounced ==
  /\ [][C15_EventStep /\ C15_RefreshStep]_vars
  /\ [](ev[1] = "event" => infographicTimer # 0)
  /\ (ev[1] = "event") ~> (ev[1] = "render")
C15_Witness ==
  /\ ev[1] = "render"
  /\ colorIdx = 3
  /\ kpi.at = DateStart + 2 * DEBOUNCE_MS
  /\ kpi.epm >= 2
  /\ infographicTimer = 0

(* ============================ bad payloads ============================ *)

\* C13: a message that is dropped (JSON.parse rejects it, or handleSSEEvent
\* throws on it) changes neither the transports, the adopted transport, the
\* pending retries nor the status.
C13_BadPayloadDropped ==
  [][ev'[1] \in {"bad_payload", "threw"} =>
       /\ tr' = tr /\ es' = es /\ ddos_es' = ddos_es
       /\ timers' = timers /\ invs' = invs
       /\ status' = status]_vars

(* ============================= coordinates ============================ *)

ZoomUpdate == ev'[1] = "view" /\ viewInput'.isZooming
DragUpdate == ev'[1] = "view" /\ viewInput'.isDragging

\* C17: a view-state update during a zoom gesture leaves latitude, longitude and
\* rotationOrbit as they were and sets zoom to the proposed value.
C17_ZoomStep ==
  ZoomUpdate =>
    /\ currentViewState'.latitude = currentViewState.latitude
    /\ currentViewState'.longitude = currentViewState.longitude
    /\ currentViewState'.rotationOrbit = currentViewState.rotationOrbit
    /\ currentViewState'.zoom = viewInput'.viewState.zoom
C17_ZoomPinsCamera == [][C17_ZoomStep]_vars
C17_Witness ==
  /\ ev[1] = "view"
  /\ viewInput.isZooming /\ ~viewInput.isDragging
  /\ viewInput.viewState.latitude # currentViewState.latitude
  /\ viewInput.viewState.longitude # currentViewState.longitude
  /\ viewInput.viewState.rotationOrbit # currentViewState.rotationOrbit
  /\ currentViewState.zoom = viewInput.viewState.zoom
  /\ currentViewState.zoom # InitialViewState.zoom
  /\ currentViewState.latitude # InitialViewState.latitude

\* C18: a view-state update while isDragging is set moves latitude, longitude
\* and rotationOrbit by a tenth of the proposed delta and leaves zoom as it was,
\* whether or not isZooming is set too.
C18_DragStep ==
  DragUpdate =>
    LET prev == currentViewState
        proposed == viewInput'.viewState
    IN  /\ PanDivisor * (currentViewState'.latitude - prev.latitude)
             = proposed.latitude - prev.latitude
        /\ PanDivisor * (currentViewState'.longitude - prev.longitude)
             = proposed.longitude - prev.longitude
        /\ PanDivisor * (currentViewState'.rotationOrbit - prev.rotationOrbit)
             = proposed.rotationOrbit - prev.rotationOrbit
        /\ currentViewState'.zoom = prev.zoom
C18_DragDampsAndHoldsZoom == [][C18_DragStep]_vars

\* C19: a frame with no gesture active turns rotationOrbit, a frame during a
\* gesture leaves it.
C19_FrameStep ==
  ev'[1] = "frame" =>
    IF isInteracting
    THEN currentViewState'.rotationOrbit = currentViewState.rotationOrbit
    ELSE currentViewState'.rotationOrbit # currentViewState.rotationOrbit
C19_IdleRotation == [][C19_FrameStep]_vars

(* ============================== teardown ============================== *)

\* The module instances whose dispose handler has run.
Disposed(g) == g < curGen \/ (g = curGen /\ hot = "disposed")

\* C20: no transport of a disposed module instance is live: the teardown closed
\* what was live, and no probe or retry timer of that instance created a
\* transport afterwards.
C20_TeardownClosesAll ==
  /\ \A t \in Slots : Live(tr[t]) => ~Disposed(tr[t].gen)
  /\ Disposed(1) /\ curGen = 1 => leaked = EmptyBag

(* ============================ probing order =========================== *)

ProbeSlots(f) == {t \in Slots : f[t].h = "probe"}

\* C21: an invocation of connectSSE awaits one probe at a time; it starts with
\* the first candidate, goes to candidate i + 1 only when the open-timeout of
\* candidate i fired before it opened, and creates no transport once a probe
\* opened and was adopted.
C21_OneProbe ==
  /\ \A v, w \in invs : v.gen = w.gen => v = w
  /\ \A v \in invs : /\ tr[v.src].h = "probe"
                     /\ tr[v.src].url = v.i
                     /\ tr[v.src].gen = v.gen
  /\ ProbeSlots(tr) = {v.src : v \in invs}
C21_ProbeStep ==
  \A w \in invs' \ invs :
    IF w.i = 1
    THEN ev'[1] = "connect"
    ELSE /\ ev'[1] = "probe_timeout"
         /\ \E v \in invs \ invs' :
              /\ v.gen = w.gen
              /\ v.i + 1 = w.i
              /\ tr[v.src].rs # "open"
C21_AdoptStep ==
  ev'[1] = "probe_open" =>
    /\ invs' \subseteq invs
    /\ ProbeSlots(tr') \subseteq ProbeSlots(tr)
    /\ \A t \in Slots : tr[t].rs = "free" => tr'[t].rs = "free"
    /\ \A v \in invs' : v.gen # tr[ev'[2]].gen
C21_ProbedInOrder == []C21_OneProbe /\ [][C21_ProbeStep /\ C21_AdoptStep]_vars
C21_Witness ==
  /\ ev[1] = "probe_open"
  /\ tr[ev[2]].url = NumCandidates
  /\ tr[ev[2]].h = "adopted"
  /\ es[1] = ev[2]
  /\ invs = {}
  /\ status = "unable"

(* ============================== eviction ============================== *)

\* The records of s, by their numbers.
ArcIds(s) == [i \in 1..Len(s) |-> s[i].n]

\* C22: a frame at time now removes exactly the records with
\* now - born >= TRAVEL_MS + FADE_MS and keeps the younger ones in their order
\* (so the first frame at or after born + 3200 removes the record).
C22_FrameStep ==
  ev'[1] = "frame" =>
    LET Younger(a) == perfNow - a.born < TRAVEL_MS + FADE_MS
    IN  ArcIds(arcs') = ArcIds(SelectSeq(arcs, Younger))
C23_WidthInBounds ==
  \A i \in 1..Len(arcs) :
    /\ arcs[i].width # NotANumber
    /\ arcs[i].width >= WidthFloor
    /\ arcs[i].width <= 2 * SqrtClampHigh
C23_WidthStep ==
  /\ colorIdx' = colorIdx + 1 =>
       LET new == arcs'[Len(arcs')]
       IN  new.width >= 2 * SqrtClampLow /\ new.width <= 2 * SqrtClampHigh
  /\ \A i \in 1..Len(arcs), j \in 1..Len(arcs') :
       SameArc(i, j) => arcs'[j].width <= arcs[i].width
C23_WidthClamped == []C23_WidthInBounds /\ [][C23_WidthStep]_vars

\* ---------------------------------------------------------------------------
\* C24: colours are handed out round-robin: the k-th admitted arc (k from 0)
\* carries palette entry k mod COLORS.length for as long as it lives, whatever
\* was evicted meanwhile; a message that is dropped does not move the colour
\* counter; every record enters with progress 0.02 and alpha 1.
C24_AdmitStep ==
  ev'[1] = "event" =>
    /\ colorIdx' = colorIdx + 1
    /\ Len(arcs') >= 1
    /\ LET a == arcs'[Len(arcs')]
       IN /\ a.n = colorIdx
          /\ a.color = colorIdx % COLORS_LENGTH
          /\ 50 * a.progress = ProgressScale
          /\ a.alpha = AlphaScale
C24_OtherStep == ev'[1] # "event" => colorIdx' = colorIdx
C24_ColourKept ==
  \A i \in 1..Len(arcs), j \in 1..Len(arcs') : SameArc(i, j) => arcs'[j].color = arcs[i].color
C24_RoundRobin ==
  /\ [](\A i \in 1..Len(arcs) : arcs[i].color = arcs[i].n % COLORS_LENGTH)
  /\ [][C24_AdmitStep /\ C24_OtherStep /\ C24_ColourKept]_vars
\* The counter has gone round the palette, earlier arcs have been evicted, and
\* the arc just admitted is the only one alive.
C24_Witness ==
  /\ ev[1] = "event"
  /\ colorIdx > COLORS_LENGTH
  /\ Len(arcs) = 1
  /\ arcs[1].n = colorIdx - 1
  /\ arcs[1].color = (colorIdx - 1) % COLORS_LENGTH

\* ---------------------------------------------------------------------------
\* C29: a delivered message is handled all or nothing.  An admitted message
\* adds one ArcRecord and one WindowEntry, both made from that message, before
\* the cap and the prune are applied; a dropped message (unparsable, or one
\* whose handling throws) leaves the arc list, the window log, the colour
\* counter and the debounce timer as they were.
C29_Admitted ==
  ev'[1] = "event" =>
    \E p \in ConnPayloads :
      /\ arcs' = CapArcs(Append(arcs, NewArc(colorIdx, perfNow, p)))
      /\ windowEvents' = PruneWindow(Append(windowEvents, NewEntry(p, dateNow)), dateNow)
      /\ colorIdx' = colorIdx + 1
C29_Dropped ==
  ev'[1] \in {"bad_payload", "threw"} =>
    /\ arcs' = arcs
    /\ windowEvents' = windowEvents
    /\ colorIdx' = colorIdx
    /\ infographicTimer' = infographicTimer
C29_AllOrNothing == [][C29_Admitted /\ C29_Dropped]_vars
\* A throwing message has just been dropped while arcs, window entries and a
\* pending debounce timer from earlier messages are in place.
C29_Witness ==
  /\ ev[1] = "threw"
  /\ Len(arcs) >= 1
  /\ Len(windowEvents) > Len(arcs)
  /\ infographicTimer # 0

\* ---------------------------------------------------------------------------
\* C25: for every seed the fallback hash is a non-negative integer, also when
\* the 32-bit accumulator ends at the minimum integer -2^31; the radius
\* 10 + (h % 100) / 100 * 12 lies in [10, 22) and the angle (h / 100) % 360 in
\* [0, 360) degrees.
MinInt32 == (-(Half \div 2)) * Half
C25_HashInBand ==
  \A i \in 1..Len(arcs) :
    arcs[i].sourcePosition.kind = "hub" =>
      LET h == HashStr(SrcSeed(arcs[i].srcCode))
      IN  /\ h[1] >= 0 /\ h[2] \in 0..(Half - 1)
          /\ arcs[i].sourcePosition.r \in 0..99
          /\ arcs[i].sourcePosition.ang \in 0..35999
\* An arc whose seed hashed to the minimum integer is on the globe: the hash is
\* 2^31, the radius 10 + 0.48 * 12 and the angle 116.48 degrees.
C25_Witness ==
  /\ Len(arcs) >= 1
  /\ LET a == arcs[Len(arcs)]
     IN /\ ToInt32(HashFrom(0, 0, SrcSeed(a.srcCode))) = MinInt32
        /\ HashStr(SrcSeed(a.srcCode)) = <<Half \div 2, 0>>
        /\ a.sourcePosition = [kind |-> "hub", code |-> "", r |-> 48, ang |-> 11648]

\* ---------------------------------------------------------------------------
\* C26: the prune never drops a valid entry.  What a message leaves in the log
\* is the log before it with the new entry appended, less a prefix, and every
\* entry of that prefix is strictly older than now - WINDOW_MS: the log stays a
\* suffix of the arrivals in arrival order and an entry whose timestamp is
\* exactly now - WINDOW_MS or newer is still there.  Nothing else touches the log.
C26_PruneStep ==
  IF ev'[1] = "event"
  THEN \E p \in WinPayloads :
         LET before == Append(windowEvents, NewEntry(p, dateNow))
         IN  \E k \in 0..Len(before) :
               /\ windowEvents' = SubSeq(before, k + 1, Len(before))
               /\ \A i \in 1..k : before[i].ts < dateNow - WINDOW_MS
  ELSE windowEvents' = windowEvents
C26_PruneKeepsValid == [][C26_PruneStep]_vars
\* A prune has removed an older entry and kept, at the head of the log, an
\* entry that is exactly WINDOW_MS old.
C26_Witness ==
  /\ ev[1] = "event"
  /\ Len(windowEvents) >= 2
  /\ colorIdx > Len(windowEvents)
  /\ windowEvents[1].ts = dateNow - WINDOW_MS

\* ---------------------------------------------------------------------------
\* C27: every WindowEntry carries an integer epoch-millisecond timestamp (the
\* event's ts if it has a valid one, the receive time otherwise), so that no
\* entry blocks the prune: after a prune the head of the log is an entry that
\* is not older than the window.
C27_TsIsEpochMs == \A i \in 1..Len(windowEvents) : windowEvents[i].ts # NotANumber
C27_HeadInWindow ==
  (ev[1] = "event" /\ Len(windowEvents) > 0) =>
    /\ windowEvents[1].ts # NotANumber
    /\ windowEvents[1].ts >= dateNow - WINDOW_MS
C27_EntriesExpire == C27_TsIsEpochMs /\ C27_HeadInWindow

\* ---------------------------------------------------------------------------
\* C28: the status follows the connection.  While the adopted transport is
\* open the status reads connected, from the adoption on and also before any
\* message; after an error of the adopted transport it reads reconnecting; and
\* it turns to unable-to-connect only when the last candidate of a cycle has
\* failed to open.
C28_ConnectedWhileOpen ==
  \A t \in Slots :
    (tr[t].h = "adopted" /\ tr[t].rs = "open" /\ es[1] = t) => status = "connected"
C28_ReconnectingAfterError == ev[1] = "adopted_error" => status = "reconnecting"
C28_UnableStep == (status' = "unable" /\ status # "unable") => ev'[1] = "all_failed"
C28_StatusFollows ==
  /\ [](C28_ConnectedWhileOpen /\ C28_ReconnectingAfterError)
  /\ [][C28_UnableStep]_vars

====
